---- MODULE Spec2Model ----
(***************************************************************************)
(* The dialogue editor (tools/dialogue_editor/main_window.py) and the data *)
(* model it drives (models.py and yaml_io.py, which the window imports).   *)
(*                                                                         *)
(* Python objects are references.  Dialogue objects live in `heap`, a cell *)
(* per object ever created; the window, the graph view and the inspector   *)
(* hold cell numbers, so two holders of one dialogue see each other's      *)
(* writes, and a holder of a dialogue that left the project still holds it. *)
(* A node object is named by (cell, id); a node object that no dialogue    *)
(* holds any longer is "detached": writes to it reach nothing.             *)
(*                                                                         *)
(* Qt is modelled by what the handlers rely on: a widget whose signals are *)
(* blocked emits nothing; an editable combo box emits currentTextChanged   *)
(* when, and only when, the text of its line edit changes, which clear()   *)
(* does when that text is not empty.                                       *)
(***************************************************************************)
EXTENDS Integers, Sequences, FiniteSets, TLC

\* ------------------------------------------------------------------ bounds
MaxNodes == 3      \* node ids a dialogue can ever hold (n1..n3)
MaxObjs == 4       \* dialogue objects created in one session
MaxEdits == 3      \* operations of one session that change the project, a dialogue or a file
MaxChoices == 1    \* choices per node
MaxSelect == 1     \* items a rubber band selects at once

\* ------------------------------------------------------------ value sets
NodeType == {"SAY", "CHOICE", "SET", "IF", "JUMP", "END", "SIGNAL"}

NodePool == <<"n1", "n2", "n3", "n4", "n5", "n6">>
NodeIds == {NodePool[i] : i \in 1..MaxNodes}
PoolIndex(id) == CHOOSE i \in 1..Len(NodePool) : NodePool[i] = id

DialogueIds == {"d1", "d2"}
RootPath == "root"
Files == DialogueIds \cup {"bad"}

NoId == ""
None == 0
Cells == 1..MaxObjs

\* What the user types or picks in the inspector.
SpeakerInputs == {"", "hero"}
TextInputs == {"bye"}
NextInputs == {"", "n2"}
ChoiceTextInputs == {"go"}
MoveDeltas == {10}

\* ----------------------------------------------------------- sequences
Range(s) == {s[i] : i \in 1..Len(s)}

RECURSIVE SeqFilterOut(_, _)
SeqFilterOut(s, id) ==
    IF s = <<>> THEN <<>>
    ELSE IF Head(s).id = id THEN SeqFilterOut(Tail(s), id)
    ELSE <<Head(s)>> \o SeqFilterOut(Tail(s), id)

RemoveAt(s, i) == SubSeq(s, 1, i - 1) \o SubSeq(s, i + 1, Len(s))

RECURSIVE Concat(_)
Concat(ss) == IF ss = <<>> THEN <<>> ELSE Head(ss) \o Concat(Tail(ss))

\* All orders in which a finite set can be walked.
RECURSIVE Orders(_)
Orders(S) ==
    IF S = {} THEN {<<>>}
    ELSE UNION {{<<x>> \o o : o \in Orders(S \ {x})} : x \in S}

\* --------------------------------------------------------------- models
NodePosition(x, y) == [x |-> x, y |-> y]

ChoiceOption(text) == [text |-> text, next |-> ""]

\* DialogueNode(type=t), with the id the constructor gives it.
DialogueNode(id, t) ==
    [id |-> id, type |-> t, speaker |-> "", text |-> "", next |-> "",
     choices |-> <<>>, assignments |-> <<>>, condition |-> "",
     then_node |-> "", else_node |-> "", jump_target |-> "",
     outcome |-> "", signal_name |-> "", ui_pos |-> NodePosition(0, 0)]

Dialogue(id, title) ==
    [id |-> id, title |-> title, nodes |-> <<>>, characters |-> {},
     file_path |-> "", is_modified |-> FALSE, last_index |-> 0]

NodeKeys(d) == {d.nodes[i].id : i \in 1..Len(d.nodes)}
HasNode(d, id) == id \in NodeKeys(d)
NodeIndex(d, id) == CHOOSE i \in 1..Len(d.nodes) : d.nodes[i].id = id
get_node(d, id) == d.nodes[NodeIndex(d, id)]

\* The successor set of a node: the non-empty successor ids of the fields of
\* its active type.
NonEmpty(S) == S \ {""}

\* A successor set read off every field, whatever the node's type.
successors_of_every_field(n) ==
    NonEmpty({n.next, n.then_node, n.else_node, n.jump_target}
             \cup {n.choices[i].next : i \in 1..Len(n.choices)})

successors(n) ==
    CASE n.type \in {"SAY", "SET", "SIGNAL"} -> NonEmpty({n.next})
      [] n.type = "CHOICE" -> NonEmpty({n.choices[i].next : i \in 1..Len(n.choices)})
      [] n.type = "IF" -> NonEmpty({n.then_node, n.else_node})
      [] n.type = "JUMP" -> NonEmpty({n.jump_target})
      [] OTHER -> {}

\* ----------------------------------------------------------- validation
\* A cross-dialogue jump target is written <dialogue_id>/<node_id>.
CrossTargets ==
    {[ref |-> d \o "/" \o NodePool[i], dialogue |-> d, node |-> NodePool[i]] :
        d \in DialogueIds, i \in 1..Len(NodePool)}

\* The project as validation sees it: dialogue id -> dialogue; NoProject when
\* the caller hands none over.
NoProject == [d \in {} |-> Dialogue(d, d)]

resolves_cross(ref, proj) ==
    \E t \in CrossTargets :
        /\ t.ref = ref
        /\ t.dialogue \in DOMAIN proj
        /\ HasNode(proj[t.dialogue], t.node)

\* A resolution that takes every name for a node.
resolves_any_name(d, n, ref, proj) == ref = ref

\* A resolution in which a node does not count as a target of its own references.
resolves_other_nodes(d, n, ref, proj) ==
    \/ HasNode(d, ref) /\ ref # n.id
    \/ n.type = "JUMP" /\ resolves_cross(ref, proj)

resolves(d, n, ref, proj) ==
    \/ HasNode(d, ref)
    \/ n.type = "JUMP" /\ resolves_cross(ref, proj)

\* The successor ids of a node in field order, each once.
RECURSIVE Dedup(_, _)
Dedup(s, seen) ==
    IF s = <<>> THEN <<>>
    ELSE IF Head(s) \in seen THEN Dedup(Tail(s), seen)
    ELSE <<Head(s)>> \o Dedup(Tail(s), seen \cup {Head(s)})

successor_list(n) ==
    LET all == <<n.next>> \o [i \in 1..Len(n.choices) |-> n.choices[i].next]
               \o <<n.then_node, n.else_node, n.jump_target>>
    IN Dedup(SelectSeq(all, LAMBDA r : r \in successors(n)), {})

Diagnostic(sev, kind, id) == [severity |-> sev, kind |-> kind, node_id |-> id]

\* A dangling check that looks at `next` alone.
check_dangling_next_only(d, proj) ==
    Concat([i \in 1..Len(d.nodes) |->
        LET n == d.nodes[i]
        IN IF n.type \in {"SAY", "SET", "SIGNAL"} /\ n.next # "" /\ ~HasNode(d, n.next)
           THEN <<Diagnostic("error", "dangling", n.id)>> ELSE <<>>])

check_dangling(d, proj) ==
    Concat([i \in 1..Len(d.nodes) |->
        LET n == d.nodes[i]
            refs == SelectSeq(successor_list(n), LAMBDA r : ~resolves(d, n, r, proj))
        IN [k \in 1..Len(refs) |-> Diagnostic("error", "dangling", n.id)]])

check_speaker(d) ==
    Concat([i \in 1..Len(d.nodes) |->
        LET n == d.nodes[i]
        IN IF n.type = "SAY" /\ n.speaker # "" /\ n.speaker \notin d.characters
           THEN <<Diagnostic("warning", "unknown_speaker", n.id)>> ELSE <<>>])

\* The node ids reached from the entry node, the first in insertion order.
RECURSIVE reach(_, _)
reach(d, seen) ==
    LET more == {r \in UNION {successors(get_node(d, id)) : id \in seen} :
                    HasNode(d, r)} \ seen
    IN IF more = {} THEN seen ELSE reach(d, seen \cup more)

\* A reachability that counts every node some node names.
reachable_by_any_reference(d) ==
    IF d.nodes = <<>> THEN {}
    ELSE {d.nodes[1].id} \cup
         {r \in UNION {successors(d.nodes[i]) : i \in 1..Len(d.nodes)} : HasNode(d, r)}

reachable(d) == IF d.nodes = <<>> THEN {} ELSE reach(d, {d.nodes[1].id})

check_unreachable(d) ==
    Concat([i \in 1..Len(d.nodes) |->
        IF d.nodes[i].id \in reachable(d) THEN <<>>
        ELSE <<Diagnostic("warning", "unreachable", d.nodes[i].id)>>])

check_terminal(d) ==
    IF d.nodes = <<>> \/ \E id \in reachable(d) : get_node(d, id).type = "END"
    THEN <<>>
    ELSE <<Diagnostic("warning", "no_terminal", d.nodes[1].id)>>

check_self_loop(d) ==
    Concat([i \in 1..Len(d.nodes) |->
        IF successors(d.nodes[i]) = {d.nodes[i].id}
        THEN <<Diagnostic("error", "self_loop", d.nodes[i].id)>> ELSE <<>>])

\* A validation that runs the self-loop check first.
validate_self_loops_first(d, proj) ==
    check_self_loop(d) \o check_dangling(d, proj) \o check_speaker(d)
        \o check_unreachable(d) \o check_terminal(d)

validate(d, proj) ==
    check_dangling(d, proj) \o check_speaker(d) \o check_unreachable(d)
        \o check_terminal(d) \o check_self_loop(d)

\* ------------------------------------------------------- dialogue graph
\* The id add_node gives a node that brings none: the next of the pool after
\* every id the dialogue has ever held.
fresh_id(d) == NodePool[d.last_index + 1]

Max(a, b) == IF a > b THEN a ELSE b

\* An add_node that stores the node without looking for its id.
Dialogue_add_node_unchecked(d, node) ==
    LET id == IF node.id = NoId THEN fresh_id(d) ELSE node.id
    IN [ok |-> TRUE, error |-> "",
        dialogue |-> [d EXCEPT !.nodes = Append(@, [node EXCEPT !.id = id]),
                               !.is_modified = TRUE,
                               !.last_index = Max(@, PoolIndex(id))],
        id |-> id]

\* add_node(node): [ok, dialogue, id].  A node whose id the dialogue holds is
\* refused with DuplicateIdError and the dialogue is left as it was.
Dialogue_add_node(d, node) ==
    IF node.id # NoId /\ HasNode(d, node.id)
    THEN [ok |-> FALSE, error |-> "DuplicateIdError", dialogue |-> d, id |-> node.id]
    ELSE LET id == IF node.id = NoId THEN fresh_id(d) ELSE node.id
         IN [ok |-> TRUE, error |-> "",
             dialogue |-> [d EXCEPT !.nodes = Append(@, [node EXCEPT !.id = id]),
                                    !.is_modified = TRUE,
                                    !.last_index = Max(@, PoolIndex(id))],
             id |-> id]

\* remove_node(id): the node leaves; no other node is touched.
Dialogue_remove_node(d, id) ==
    IF ~HasNode(d, id)
    THEN [ok |-> FALSE, error |-> "NotFoundError", dialogue |-> d]
    ELSE [ok |-> TRUE, error |-> "",
          dialogue |-> [d EXCEPT !.nodes = SeqFilterOut(@, id),
                                 !.is_modified = TRUE]]


\* ---------------------------------------------------------------- codec
\* save_dialogue writes the dialogue's id, title, characters and full node
\* list, in insertion order; loading a document gives the dialogue back, with
\* the file it came from and no modification pending.
NoFile == [kind |-> "absent", doc |-> <<>>]
Malformed == [kind |-> "malformed", doc |-> <<>>]

\* A node as the document holds it: id, type, position {x, y} and the payload.
node_document(n) ==
    [id |-> n.id, type |-> n.type,
     position |-> [x |-> n.ui_pos.x, y |-> n.ui_pos.y],
     speaker |-> n.speaker, text |-> n.text, next |-> n.next,
     choices |-> [i \in 1..Len(n.choices) |->
                     [text |-> n.choices[i].text, next |-> n.choices[i].next]],
     assignments |-> n.assignments, condition |-> n.condition,
     then_node |-> n.then_node, else_node |-> n.else_node,
     jump_target |-> n.jump_target, outcome |-> n.outcome,
     signal_name |-> n.signal_name]

node_of_document(e) ==
    [DialogueNode(e.id, e.type) EXCEPT
        !.ui_pos = NodePosition(e.position.x, e.position.y),
        !.speaker = e.speaker, !.text = e.text, !.next = e.next,
        !.choices = [i \in 1..Len(e.choices) |->
                        [ChoiceOption(e.choices[i].text) EXCEPT !.next = e.choices[i].next]],
        !.assignments = e.assignments, !.condition = e.condition,
        !.then_node = e.then_node, !.else_node = e.else_node,
        !.jump_target = e.jump_target, !.outcome = e.outcome,
        !.signal_name = e.signal_name]

\* A document that leaves out where the nodes are drawn.
serialize_unplaced(d) ==
    [kind |-> "ok",
     doc |-> <<[id |-> d.id, title |-> d.title, characters |-> d.characters,
                nodes |-> [i \in 1..Len(d.nodes) |->
                    [node_document(d.nodes[i]) EXCEPT !.position = [x |-> 0, y |-> 0]]]]>>]

serialize(d) ==
    [kind |-> "ok",
     doc |-> <<[id |-> d.id, title |-> d.title, characters |-> d.characters,
                nodes |-> [i \in 1..Len(d.nodes) |-> node_document(d.nodes[i])]]>>]

IndexOfIds(ids) == IF ids = {} THEN 0 ELSE CHOOSE m \in {PoolIndex(i) : i \in ids} :
                       \A k \in {PoolIndex(i) : i \in ids} : k <= m

parse(file, f) ==
    LET doc == file.doc[1]
    IN [id |-> doc.id, title |-> doc.title,
        nodes |-> [i \in 1..Len(doc.nodes) |-> node_of_document(doc.nodes[i])],
        characters |-> doc.characters, file_path |-> f, is_modified |-> FALSE,
        last_index |-> IndexOfIds({doc.nodes[i].id : i \in 1..Len(doc.nodes)})]

\* The documents of the project directory when the editor starts.
Doc1 ==
    serialize([Dialogue("d1", "Intro") EXCEPT
        !.characters = {"hero"},
        !.nodes = <<[DialogueNode("n1", "SAY") EXCEPT
                        !.speaker = "hero", !.text = "hi", !.next = "n2"],
                    [DialogueNode("n2", "JUMP") EXCEPT
                        !.jump_target = "d2/n1", !.ui_pos = NodePosition(250, 0)]>>])

Doc2 ==
    serialize([Dialogue("d2", "Outro") EXCEPT
        !.characters = {"hero"},
        !.nodes = <<[DialogueNode("n1", "CHOICE") EXCEPT
                        !.choices = <<[text |-> "again", next |-> "n1"]>>]>>])

InitialDisk == [f \in Files |-> CASE f = "d1" -> Doc1 [] f = "d2" -> Doc2 [] OTHER -> Malformed]

\* ---------------------------------------------------------------- state
VARIABLES
    project,           \* the window's project: open?, dialogue id -> cell, load errors
    heap,              \* cell -> dialogue object
    alloc,             \* cells handed out so far
    disk,              \* file -> document
    current_dialogue,  \* the window's current dialogue (a cell, or None)
    gv_dialogue,       \* NodeGraphView.dialogue
    node_items,        \* NodeGraphView.node_items: node id -> cell of the node it wraps
    connection_lines,  \* NodeGraphView.connection_lines
    insp_dialogue,     \* NodeInspector.dialogue
    current_node,      \* NodeInspector.current_node
    type_combo,        \* the inspector's widgets
    speaker_combo,
    text_edit,
    next_combo,
    choices_list,
    tree_items,        \* the dialogue ids the dialogue tree lists
    edits,             \* operations made so far that change the project, a dialogue or a file
    dirty,             \* history: cell -> its graph was mutated since its last save or load
    last,              \* history: the handler that ran last and how it ended
    probe,             \* the input and result of a pure function under study
    run                \* a run of the voice-over generator: arguments, files, position

vars == <<project, heap, alloc, disk, current_dialogue, gv_dialogue, node_items,
          connection_lines, insp_dialogue, current_node, type_combo,
          speaker_combo, text_edit, next_combo, choices_list, tree_items,
          edits, dirty, last, probe, run>>

editor_vars == <<project, heap, alloc, disk, current_dialogue, gv_dialogue,
                 node_items, connection_lines, insp_dialogue,
                 current_node, type_combo, speaker_combo, text_edit, next_combo,
                 choices_list, tree_items, edits, dirty, last>>

Blank == Dialogue("", "")
NoItems == [i \in {} |-> None]
NoNode == [kind |-> "none", cell |-> None, id |-> ""]
Detached == [kind |-> "detached", cell |-> None, id |-> ""]
NodeRef(cell, id) == [kind |-> "node", cell |-> cell, id |-> id]
NoProbe == [fn |-> "none"]
NoRun == [pc |-> "none"]

Outcome(op, error) == [op |-> op, error |-> error, count |-> 0, shown |-> <<>>]
Counted(op, error, n) == [op |-> op, error |-> error, count |-> n, shown |-> <<>>]
Reported(op, error, items) ==
    [op |-> op, error |-> error, count |-> Len(items), shown |-> items]
Quiet == Outcome("", "")

\* The whole state as one record, which the handlers below take and give back.
State ==
    [project |-> project, heap |-> heap, alloc |-> alloc, disk |-> disk,
     current_dialogue |-> current_dialogue, gv_dialogue |-> gv_dialogue,
     node_items |-> node_items, connection_lines |-> connection_lines,
     insp_dialogue |-> insp_dialogue,
     current_node |-> current_node, type_combo |-> type_combo,
     speaker_combo |-> speaker_combo, text_edit |-> text_edit,
     next_combo |-> next_combo, choices_list |-> choices_list,
     tree_items |-> tree_items, edits |-> edits, dirty |-> dirty,
     last |-> last]

ProjectCells(S) == {S.project.dialogues[d] : d \in DialogueIds} \ {None}

Held(S) ==
    (ProjectCells(S) \cup {S.current_dialogue, S.gv_dialogue, S.insp_dialogue}) \ {None}

\* Objects nothing holds any longer are gone; a node object that left its
\* dialogue, or whose dialogue nothing holds, is detached.
collect(S) ==
    LET held == Held(S)
        ref == S.current_node
        gone == ref.kind = "node" /\ (ref.cell \notin held \/ ~HasNode(S.heap[ref.cell], ref.id))
    IN [S EXCEPT !.heap = [c \in Cells |-> IF c \in held THEN S.heap[c] ELSE Blank],
                 !.dirty = [c \in Cells |-> c \in held /\ S.dirty[c]],
                 !.current_node = IF gone THEN Detached ELSE ref]

\* The part of a dialogue that is its graph: the nodes without where they are drawn.
graph_of(d) == [i \in 1..Len(d.nodes) |-> [d.nodes[i] EXCEPT !.ui_pos = NodePosition(0, 0)]]

\* A handler runs once the report of the one before it has been read.  The
\* state a handler leaves behind: S1 after the handler ran from S0;
\* `clean` are the cells it saved or loaded.
settle(S0, S1, clean, out) ==
    LET S2 == collect(S1)
    IN [S2 EXCEPT
          !.dirty = [c \in Cells |->
              /\ c \in Held(S2)
              /\ c \notin clean
              /\ (S0.dirty[c] \/ graph_of(S1.heap[c]) # graph_of(S0.heap[c]))],
          !.last = out]

Commit(S0, S1, clean, out) ==
    /\ last = Quiet
    /\ \E S \in {settle(S0, S1, clean, out)} :
       /\ project' = S.project
       /\ heap' = S.heap
       /\ alloc' = S.alloc
       /\ disk' = S.disk
       /\ current_dialogue' = S.current_dialogue
       /\ gv_dialogue' = S.gv_dialogue
       /\ node_items' = S.node_items
       /\ connection_lines' = S.connection_lines
       /\ insp_dialogue' = S.insp_dialogue
       /\ current_node' = S.current_node
       /\ type_combo' = S.type_combo
       /\ speaker_combo' = S.speaker_combo
       /\ text_edit' = S.text_edit
       /\ next_combo' = S.next_combo
       /\ choices_list' = S.choices_list
       /\ tree_items' = S.tree_items
       /\ edits' = S.edits
       /\ dirty' = S.dirty
       /\ last' = S.last
       /\ UNCHANGED <<probe, run>>

\* The editor as constructed: no project, no dialogue, empty widgets.
EditorInit ==
    /\ project = [open |-> FALSE, dialogues |-> [d \in DialogueIds |-> None], load_errors |-> <<>>]
    /\ heap = [c \in Cells |-> Blank]
    /\ alloc = 0
    /\ disk = InitialDisk
    /\ current_dialogue = None
    /\ gv_dialogue = None
    /\ node_items = NoItems
    /\ connection_lines = <<>>
    /\ insp_dialogue = None
    /\ current_node = NoNode
    /\ type_combo = "SAY"
    /\ speaker_combo = ""
    /\ text_edit = ""
    /\ next_combo = ""
    /\ choices_list = <<>>
    /\ tree_items = {}
    /\ edits = 0
    /\ dirty = [c \in Cells |-> FALSE]
    /\ last = Quiet

Init == EditorInit /\ probe = NoProbe /\ run = NoRun


\* ----------------------------------------------------------- graph view
ConnectionLine(start, end, pen) == [start |-> start, end |-> end, pen |-> pen]

\* A line to `target` when it is set and has an item in the view.
line_to(S, n, target, pen) ==
    IF target # "" /\ target \in DOMAIN S.node_items
    THEN <<ConnectionLine(n.id, target, pen)>> ELSE <<>>

node_lines(S, n) ==
    IF n.id \notin DOMAIN S.node_items THEN <<>>
    ELSE line_to(S, n, n.next, "next")
         \o Concat([i \in 1..Len(n.choices) |-> line_to(S, n, n.choices[i].next, "choice")])
         \o line_to(S, n, n.then_node, "then")
         \o line_to(S, n, n.else_node, "else")
         \o line_to(S, n, n.jump_target, "jump")

_create_connections(S) ==
    IF S.gv_dialogue = None THEN S
    ELSE LET d == S.heap[S.gv_dialogue]
         IN [S EXCEPT !.connection_lines =
                Concat([i \in 1..Len(d.nodes) |-> node_lines(S, d.nodes[i])])]

GraphView_clear(S) ==
    [S EXCEPT !.node_items = NoItems, !.connection_lines = <<>>]

load_dialogue(S, cell) ==
    LET S1 == GraphView_clear([S EXCEPT !.gv_dialogue = cell])
        S2 == [S1 EXCEPT !.node_items = [id \in NodeKeys(S.heap[cell]) |-> cell]]
    IN _create_connections(S2)

refresh_node(S, node_id) == _create_connections(S)

\* The view's add_node: the node's position, and an item for it; no line is
\* drawn.
GraphView_add_node(S, cell, id, x, y) ==
    LET d == S.heap[cell]
        i == NodeIndex(d, id)
    IN [S EXCEPT !.heap[cell].nodes[i].ui_pos = NodePosition(x, y),
                 !.node_items = [k \in DOMAIN S.node_items \cup {id} |->
                                    IF k = id THEN cell ELSE S.node_items[k]]]

\* A remove_node that redraws the lines and leaves the item in the view.
GraphView_remove_node_keeping_item(S, node_id) ==
    IF node_id \in DOMAIN S.node_items THEN _create_connections(S) ELSE S

GraphView_remove_node(S, node_id) ==
    IF node_id \in DOMAIN S.node_items
    THEN _create_connections(
            [S EXCEPT !.node_items = [k \in DOMAIN S.node_items \ {node_id} |-> S.node_items[k]]])
    ELSE S

\* ------------------------------------------------------------ the window
_refresh_dialogue_tree(S) ==
    [S EXCEPT !.tree_items = IF S.project.open
                             THEN {d \in DialogueIds : S.project.dialogues[d] # None}
                             ELSE {}]

_on_node_changed(S, node_id) ==
    LET S1 == refresh_node(S, node_id)
    IN IF S1.current_dialogue # None
       THEN _refresh_dialogue_tree([S1 EXCEPT !.heap[S1.current_dialogue].is_modified = TRUE])
       ELSE S1

\* ------------------------------------------------------------- inspector
\* A write to the inspector's node: it reaches the dialogue that holds the
\* node; a detached node is held by the inspector alone.
write_field(S, field, value) ==
    LET ref == S.current_node
    IN IF ref.kind = "node" /\ HasNode(S.heap[ref.cell], ref.id)
       THEN LET i == NodeIndex(S.heap[ref.cell], ref.id)
            IN CASE field = "speaker" -> [S EXCEPT !.heap[ref.cell].nodes[i].speaker = value]
                 [] field = "text" -> [S EXCEPT !.heap[ref.cell].nodes[i].text = value]
                 [] field = "next" -> [S EXCEPT !.heap[ref.cell].nodes[i].next = value]
                 [] field = "type" -> [S EXCEPT !.heap[ref.cell].nodes[i].type = value]
                 [] field = "choices" -> [S EXCEPT !.heap[ref.cell].nodes[i].choices = value]
       ELSE S

_on_field_changed(S) ==
    IF S.current_node.kind = "none" THEN S
    ELSE LET S1 == write_field(S, "speaker", S.speaker_combo)
             S2 == write_field(S1, "text", S.text_edit)
             S3 == write_field(S2, "next", S.next_combo)
             S4 == IF S3.insp_dialogue # None
                   THEN [S3 EXCEPT !.heap[S3.insp_dialogue].is_modified = TRUE]
                   ELSE S3
         IN _on_node_changed(S4, S.current_node.id)

\* A retype that resets the payload of the type left behind.
_on_type_changed_resetting(S) ==
    IF S.current_node.kind = "none" THEN S
    ELSE _on_node_changed(
            write_field(write_field(write_field(S, "type", S.type_combo), "text", ""),
                        "next", ""),
            S.current_node.id)

_on_type_changed(S) ==
    IF S.current_node.kind = "none" THEN S
    ELSE _on_node_changed(write_field(S, "type", S.type_combo), S.current_node.id)

\* clear() empties the line edit of an editable combo box; the text changing,
\* currentTextChanged runs the slot.  The items added afterwards change no text.
_update_speaker_list(S) ==
    IF S.speaker_combo # "" THEN _on_field_changed([S EXCEPT !.speaker_combo = ""]) ELSE S

_update_node_list(S) ==
    IF S.next_combo # "" THEN _on_field_changed([S EXCEPT !.next_combo = ""]) ELSE S

set_dialogue(S, cell) ==
    _update_node_list(_update_speaker_list([S EXCEPT !.insp_dialogue = cell]))

\* A load that leaves the signals on: each widget whose value changes runs its
\* slot on the node being loaded.
load_node_unblocked(S, cell, id) ==
    LET node(T) == get_node(T.heap[cell], id)
        S0 == [S EXCEPT !.current_node = NodeRef(cell, id)]
        S1 == IF S0.type_combo # node(S0).type
              THEN _on_type_changed([S0 EXCEPT !.type_combo = node(S0).type]) ELSE S0
        S2 == IF S1.speaker_combo # node(S1).speaker
              THEN _on_field_changed([S1 EXCEPT !.speaker_combo = node(S1).speaker]) ELSE S1
        S3 == IF S2.text_edit # node(S2).text
              THEN _on_field_changed([S2 EXCEPT !.text_edit = node(S2).text]) ELSE S2
        S4 == IF S3.next_combo # node(S3).next
              THEN _on_field_changed([S3 EXCEPT !.next_combo = node(S3).next]) ELSE S3
    IN [S4 EXCEPT !.choices_list = node(S4).choices]

\* Signals are blocked while the widgets take the node's values.
load_node(S, cell, id) ==
    LET n == get_node(S.heap[cell], id)
    IN [S EXCEPT !.current_node = NodeRef(cell, id),
                 !.type_combo = n.type,
                 !.speaker_combo = n.speaker,
                 !.text_edit = n.text,
                 !.next_combo = n.next,
                 !.choices_list = n.choices]

say_group_visible(S) == S.current_node.kind # "none" /\ S.type_combo = "SAY"
choice_group_visible(S) == S.current_node.kind # "none" /\ S.type_combo = "CHOICE"



\* --------------------------------------------------------------- actions
FileSeq == <<"bad", "d1", "d2">>
DialogueSeq == <<"d1", "d2">>

\* The ids DialogueNode(type=...) may come with: none, or one of its own.
AddIds == {NoId, "n1"}
\* The toolbar and the menu add SAY, CHOICE and END nodes.
AddTypes == {"SAY", "CHOICE", "END"}

\* A handler that ends without a failure or a result worth keeping.
Done(S0, S1, clean) == Commit(S0, S1, clean, Quiet)

\* A dialog the user cancels: nothing happens.
Cancelled == UNCHANGED vars

\* An exception that leaves the handler before it wrote anything.
Raised == UNCHANGED vars

\* The report of the last handler (a message box, the status bar, a traceback)
\* is read and gone.
acknowledge ==
    /\ last # Quiet
    /\ last' = Quiet
    /\ UNCHANGED <<project, heap, alloc, disk, current_dialogue, gv_dialogue,
                   node_items, connection_lines, insp_dialogue, current_node,
                   type_combo, speaker_combo, text_edit, next_combo, choices_list,
                   tree_items, edits, dirty, probe, run>>

\* A load that gives up at a malformed document: the exception leaves the
\* project as it was.
load_project_aborting(S) ==
    IF \E f \in Files : S.disk[f].kind = "malformed" THEN S
    ELSE [S EXCEPT !.project.open = TRUE]

\* load_project: a dialogue object per well-formed document, an error per
\* malformed one.
load_project(S) ==
    LET good == SelectSeq(FileSeq, LAMBDA f : S.disk[f].kind = "ok")
        cell_of(did) ==
            LET hits == {i \in 1..Len(good) : S.disk[good[i]].doc[1].id = did}
            IN IF hits = {} THEN None
               ELSE S.alloc + (CHOOSE i \in hits : \A j \in hits : j <= i)
    IN [S EXCEPT
          !.project = [open |-> TRUE,
                       dialogues |-> [d \in DialogueIds |-> cell_of(d)],
                       load_errors |->
                           LET bad == SelectSeq(FileSeq, LAMBDA f : S.disk[f].kind = "malformed")
                           IN [i \in 1..Len(bad) |->
                                  [file_path |-> bad[i], error |-> "ParseError"]]],
          !.heap = [c \in Cells |->
                      IF c > S.alloc /\ c <= S.alloc + Len(good)
                      THEN parse(S.disk[good[c - S.alloc]], good[c - S.alloc])
                      ELSE S.heap[c]],
          !.alloc = S.alloc + Len(good)]

_open_project(path) ==
    LET n == Cardinality({f \in Files : disk[f].kind = "ok"})
    IN IF path = "" THEN Cancelled
       ELSE /\ alloc + n <= MaxObjs
            /\ edits < MaxEdits
            /\ Done(State, _refresh_dialogue_tree(load_project([State EXCEPT !.edits = @ + 1])),
                    (alloc + 1)..(alloc + n))

_on_dialogue_selected(did) ==
    LET cell == project.dialogues[did]
        S1 == [State EXCEPT !.current_dialogue = cell]
    IN /\ did \in tree_items
       /\ project.open
       /\ IF cell # None
          THEN Done(State, set_dialogue(load_dialogue(S1, cell), cell), {})
          ELSE Done(State, S1, {})

_on_node_selected(S, node_id) ==
    IF S.current_dialogue # None /\ HasNode(S.heap[S.current_dialogue], node_id)
    THEN load_node(S, S.current_dialogue, node_id)
    ELSE S

\* A press on an item announces the item's node.
mousePressEvent(id) ==
    /\ id \in DOMAIN node_items
    /\ Done(State, _on_node_selected(State, id), {})

\* The selections a user can make of the items in the scene.
Selections == {ids \in SUBSET DOMAIN node_items : Cardinality(ids) <= MaxSelect}

\* itemChange: the node of each item dragged takes the item's new position.
RECURSIVE move_items(_, _, _)
move_items(S, order, delta) ==
    IF order = <<>> THEN S
    ELSE LET id == Head(order)
             cell == S.node_items[id]
             d == S.heap[cell]
             S1 == IF HasNode(d, id)
                   THEN LET i == NodeIndex(d, id)
                        IN [S EXCEPT !.heap[cell].nodes[i].ui_pos =
                               NodePosition(@.x + delta, @.y + delta)]
                   ELSE S
         IN move_items(S1, Tail(order), delta)

itemChange(ids, delta) ==
    /\ ids \in Selections
    /\ ids # {}
    /\ edits < MaxEdits
    /\ \E order \in Orders(ids) :
          Done(State, move_items([State EXCEPT !.edits = @ + 1], order, delta), {})

edit_speaker(v) ==
    /\ say_group_visible(State)
    /\ v # speaker_combo
    /\ edits < MaxEdits
    /\ Done(State, _on_field_changed([State EXCEPT !.speaker_combo = v, !.edits = @ + 1]), {})

edit_text(v) ==
    /\ say_group_visible(State)
    /\ v # text_edit
    /\ edits < MaxEdits
    /\ Done(State, _on_field_changed([State EXCEPT !.text_edit = v, !.edits = @ + 1]), {})

edit_next(v) ==
    /\ v # next_combo
    /\ edits < MaxEdits
    /\ Done(State, _on_field_changed([State EXCEPT !.next_combo = v, !.edits = @ + 1]), {})

change_type(t) ==
    /\ t # type_combo
    /\ edits < MaxEdits
    /\ Done(State, _on_type_changed([State EXCEPT !.type_combo = t, !.edits = @ + 1]), {})

append_choice(S, choice) ==
    LET ref == S.current_node
    IN IF ref.kind = "node" /\ HasNode(S.heap[ref.cell], ref.id)
       THEN [S EXCEPT !.heap[ref.cell].nodes[NodeIndex(S.heap[ref.cell], ref.id)].choices =
                Append(@, choice)]
       ELSE S

delete_choice(S, row) ==
    LET ref == S.current_node
    IN IF ref.kind = "node" /\ HasNode(S.heap[ref.cell], ref.id)
       THEN [S EXCEPT !.heap[ref.cell].nodes[NodeIndex(S.heap[ref.cell], ref.id)].choices =
                RemoveAt(@, row)]
       ELSE S

_add_choice(text) ==
    LET S == [State EXCEPT !.edits = @ + 1]
        choice == ChoiceOption(text)
        S1 == [append_choice(S, choice) EXCEPT !.choices_list = Append(@, choice)]
    IN /\ choice_group_visible(State)
       /\ Len(choices_list) < MaxChoices
       /\ edits < MaxEdits
       /\ IF text = "" THEN Cancelled
          ELSE Done(State, _on_node_changed(S1, S.current_node.id), {})

_remove_choice(row) ==
    LET S == [State EXCEPT !.edits = @ + 1]
        S1 == [delete_choice(S, row) EXCEPT !.choices_list = RemoveAt(@, row)]
    IN /\ choice_group_visible(State)
       /\ row \in 1..Len(choices_list)
       /\ edits < MaxEdits
       /\ Done(State, _on_node_changed(S1, S.current_node.id), {})

\* An _add_node that carries on after add_node refused the node: the view
\* gets an item for the node the dialogue does not hold.
_add_node_carrying_on(node_type, id) ==
    LET S == [State EXCEPT !.edits = @ + 1]
        cell == current_dialogue
        d == heap[cell]
        x == Len(d.nodes) * 250
        node == [DialogueNode(id, node_type) EXCEPT !.ui_pos = NodePosition(x, 0)]
        r == Dialogue_add_node(d, node)
        S1 == [S EXCEPT !.heap[cell] = r.dialogue]
        S2 == GraphView_add_node(S1, cell, r.id, x, 0)
        S3 == [S1 EXCEPT !.node_items = [k \in DOMAIN S1.node_items \cup {r.id} |->
                                            IF k = r.id THEN None ELSE S1.node_items[k]]]
    IN /\ edits < MaxEdits
       /\ current_dialogue # None
       /\ id = NoId => d.last_index < MaxNodes
       /\ IF r.ok
          THEN Done(State, _update_node_list(S2), {})
          ELSE Commit(State, S3, {}, Outcome("_add_node", r.error))

_add_node(node_type, id) ==
    LET S == [State EXCEPT !.edits = @ + 1]
        cell == current_dialogue
        d == heap[cell]
        x == Len(d.nodes) * 250
        node == [DialogueNode(id, node_type) EXCEPT !.ui_pos = NodePosition(x, 0)]
        r == Dialogue_add_node(d, node)
        S1 == [S EXCEPT !.heap[cell] = r.dialogue]
        S2 == GraphView_add_node(S1, cell, r.id, x, 0)
    IN /\ edits < MaxEdits
       /\ current_dialogue # None
       /\ id = NoId => d.last_index < MaxNodes
       /\ IF r.ok
          THEN Done(State, _update_node_list(S2), {})
          ELSE Commit(State, S1, {}, Outcome("_add_node", r.error))

\* The loop of _delete_selected_node over the selected items, in the order the
\* scene gives them; an exception ends it.
RECURSIVE delete_items(_, _)
delete_items(S, order) ==
    IF order = <<>> THEN [state |-> S, error |-> ""]
    ELSE LET id == Head(order)
             cell == S.current_dialogue
             r == Dialogue_remove_node(S.heap[cell], id)
             S1 == [S EXCEPT !.heap[cell] = r.dialogue]
         IN IF r.ok
            THEN delete_items(_update_node_list(GraphView_remove_node(S1, id)), Tail(order))
            ELSE [state |-> S1, error |-> r.error]

_delete_selected_node(ids) ==
    /\ ids \in Selections
    /\ ids # {}
    /\ edits < MaxEdits
    /\ current_dialogue # None
    /\ \E order \in Orders(ids) :
          LET r == delete_items([State EXCEPT !.edits = @ + 1], order)
          IN Commit(State, r.state, {},
                    IF r.error = "" THEN Quiet ELSE Outcome("_delete_selected_node", r.error))

\* A validation that marks the dialogue it looked at.
_validate_current_marking ==
    /\ current_dialogue # None
    /\ LET errors == validate(heap[current_dialogue], NoProject)
       IN Commit(State, [State EXCEPT !.heap[current_dialogue].is_modified = TRUE], {},
                 Reported("_validate_current", IF errors # <<>> THEN "warning" ELSE "",
                          errors))

\* The window validates the current dialogue alone: validate() is handed no
\* project.
_validate_current ==
    /\ current_dialogue # None
    /\ LET errors == validate(heap[current_dialogue], NoProject)
       IN Commit(State, State, {},
                 Reported("_validate_current", IF errors # <<>> THEN "warning" ELSE "",
                          errors))

\* save_dialogue: the document is written to the dialogue's file and the
\* dialogue is no longer modified; an unwritable file raises and changes
\* nothing.
save_dialogue(S, cell) ==
    [S EXCEPT !.disk[S.heap[cell].file_path] = serialize(S.heap[cell]),
              !.heap[cell].is_modified = FALSE]

\* A save that clears the flag before it writes: a failed write leaves it cleared.
_save_current_flag_first(path, ok) ==
    LET cell == current_dialogue
        d == heap[cell]
        S1 == IF d.file_path = "" THEN [State EXCEPT !.heap[cell].file_path = path] ELSE State
    IN /\ cell # None
       /\ d.file_path # "" => path = ""
       /\ IF d.file_path = "" /\ path = "" THEN Cancelled
          ELSE IF ok THEN /\ edits < MaxEdits
                          /\ Done(State, save_dialogue([S1 EXCEPT !.edits = @ + 1], cell), {cell})
          ELSE Commit(State, [S1 EXCEPT !.heap[cell].is_modified = FALSE], {},
                      Outcome("_save_current", "IOFailure"))

_save_current(path, ok) ==
    LET cell == current_dialogue
        d == heap[cell]
        S1 == IF d.file_path = "" THEN [State EXCEPT !.heap[cell].file_path = path] ELSE State
    IN /\ cell # None
       /\ d.file_path # "" => path = ""
       /\ IF d.file_path = "" /\ path = "" THEN Cancelled
          ELSE IF ok THEN /\ edits < MaxEdits
                          /\ Done(State, save_dialogue([S1 EXCEPT !.edits = @ + 1], cell), {cell})
          ELSE Commit(State, S1, {}, Outcome("_save_current", "IOFailure"))

\* The loop of _save_all over the project's dialogues; `failing` are the
\* dialogues whose file cannot be written.
RECURSIVE save_each(_, _, _)
save_each(S, ds, failing) ==
    IF ds = <<>> THEN [state |-> S, saved |-> {}]
    ELSE LET cell == S.project.dialogues[Head(ds)]
             try == cell # None /\ S.heap[cell].is_modified /\ S.heap[cell].file_path # ""
             done == try /\ Head(ds) \notin failing
             rest == save_each(IF done THEN save_dialogue(S, cell) ELSE S, Tail(ds), failing)
         IN [state |-> rest.state,
             saved |-> rest.saved \cup (IF done THEN {cell} ELSE {})]

Attempted ==
    {d \in DialogueIds : /\ project.dialogues[d] # None
                         /\ heap[project.dialogues[d]].is_modified
                         /\ heap[project.dialogues[d]].file_path # ""}

\* What _save_all leaves to read: the count in the status bar and, on the
\* console, a line for each dialogue whose save raised.
SaveAllReport(saved, failed) ==
    [Counted("_save_all", IF failed = <<>> THEN "" ELSE "IOFailure", Cardinality(saved))
        EXCEPT !.shown = failed]

\* A loop that is left at the first save that raises.
RECURSIVE save_until_failure(_, _, _)
save_until_failure(S, ds, failing) ==
    IF ds = <<>> THEN [state |-> S, saved |-> {}, failed |-> <<>>]
    ELSE LET cell == S.project.dialogues[Head(ds)]
             try == cell # None /\ S.heap[cell].is_modified /\ S.heap[cell].file_path # ""
         IN IF try /\ Head(ds) \in failing
            THEN [state |-> S, saved |-> {}, failed |-> <<Head(ds)>>]
            ELSE LET rest == save_until_failure(IF try THEN save_dialogue(S, cell) ELSE S,
                                                Tail(ds), failing)
                 IN [state |-> rest.state,
                     saved |-> rest.saved \cup (IF try THEN {cell} ELSE {}),
                     failed |-> rest.failed]

_save_all_until_failure(failing) ==
    /\ project.open
    /\ failing \subseteq Attempted
    /\ edits < MaxEdits
    /\ LET r == save_until_failure([State EXCEPT !.edits = @ + 1], DialogueSeq, failing)
       IN Commit(State, r.state, r.saved, SaveAllReport(r.saved, r.failed))

_save_all(failing) ==
    /\ project.open
    /\ failing \subseteq Attempted
    /\ edits < MaxEdits
    /\ LET r == save_each([State EXCEPT !.edits = @ + 1], DialogueSeq, failing)
       IN Commit(State, r.state, r.saved,
                 SaveAllReport(r.saved, SelectSeq(DialogueSeq, LAMBDA d : d \in failing)))

\* Project.add_dialogue refuses an id the project holds.
_new_dialogue(name) ==
    LET cell == alloc + 1
        dialogue == [Dialogue(name, name) EXCEPT !.file_path = name]
        S1 == [State EXCEPT !.heap[cell] = dialogue, !.alloc = cell,
                            !.project.dialogues[name] = cell, !.edits = @ + 1]
    IN /\ project.open
       /\ IF name = "" THEN Cancelled
          ELSE IF project.dialogues[name] # None
          THEN Raised
          ELSE /\ alloc < MaxObjs
               /\ edits < MaxEdits
               /\ Done(State, _refresh_dialogue_tree(S1), {cell})

\* `item` is the tree's current item when Delete is pressed.
_delete_dialogue(item, yes) ==
    LET S1 == [State EXCEPT !.project.dialogues[item] = None, !.edits = @ + 1]
        S2 == [GraphView_clear(_refresh_dialogue_tree(S1)) EXCEPT !.current_dialogue = None]
    IN /\ item \in tree_items
       /\ project.open
       /\ IF yes THEN edits < MaxEdits /\ Done(State, S2, {}) ELSE Cancelled

Next ==
    \/ \E path \in {"", RootPath} : _open_project(path)
    \/ \E did \in DialogueIds : _on_dialogue_selected(did)
    \/ \E id \in NodeIds : mousePressEvent(id)
    \/ \E ids \in SUBSET NodeIds, delta \in MoveDeltas : itemChange(ids, delta)
    \/ \E v \in SpeakerInputs : edit_speaker(v)
    \/ \E v \in TextInputs : edit_text(v)
    \/ \E v \in NextInputs : edit_next(v)
    \/ \E t \in NodeType : change_type(t)
    \/ \E text \in ChoiceTextInputs \cup {""} : _add_choice(text)
    \/ \E row \in 1..MaxChoices : _remove_choice(row)
    \/ \E t \in AddTypes, id \in AddIds : _add_node(t, id)
    \/ \E ids \in SUBSET NodeIds : _delete_selected_node(ids)
    \/ _validate_current
    \/ \E path \in DialogueIds \cup {""}, ok \in BOOLEAN : _save_current(path, ok)
    \/ \E failing \in SUBSET DialogueIds : _save_all(failing)
    \/ \E name \in DialogueIds \cup {""} : _new_dialogue(name)
    \/ \E item \in DialogueIds, yes \in BOOLEAN : _delete_dialogue(item, yes)
    \/ acknowledge

Spec == Init /\ [][Next]_vars

\* ------------------------------------------- the successor function alone
\* The nodes the successor function is applied to: every type, with every
\* successor field set or empty.
SampleNodes ==
    {[DialogueNode("n1", t) EXCEPT
         !.next = nx, !.choices = ch, !.then_node = th, !.else_node = el,
         !.jump_target = jt] :
        t \in NodeType, nx \in {"", "n2"},
        ch \in {<<>>, <<[text |-> "a", next |-> ""], [text |-> "b", next |-> "n3"]>>},
        th \in {"", "n2"}, el \in {"", "n3"}, jt \in {"", "d2/n1"}}

\* The values a field is changed to.
FieldValues ==
    [next |-> {"", "n1", "n3"}, then_node |-> {"", "n1"}, else_node |-> {"", "n1"},
     jump_target |-> {"", "n1"}, text |-> {"x"}, speaker |-> {"hero"},
     choices |-> {<<>>, <<[text |-> "c", next |-> "n1"]>>}]

\* The fields the successor set of a type is read from.
ActiveFields(t) ==
    CASE t \in {"SAY", "SET", "SIGNAL"} -> {"next"}
      [] t = "CHOICE" -> {"choices"}
      [] t = "IF" -> {"then_node", "else_node"}
      [] t = "JUMP" -> {"jump_target"}
      [] OTHER -> {}

set_node_field(n, f, v) ==
    CASE f = "next" -> [n EXCEPT !.next = v]
      [] f = "then_node" -> [n EXCEPT !.then_node = v]
      [] f = "else_node" -> [n EXCEPT !.else_node = v]
      [] f = "jump_target" -> [n EXCEPT !.jump_target = v]
      [] f = "text" -> [n EXCEPT !.text = v]
      [] f = "speaker" -> [n EXCEPT !.speaker = v]
      [] f = "choices" -> [n EXCEPT !.choices = v]

Probe(fn, node, field, before, result) ==
    [fn |-> fn, node |-> node, field |-> field, before |-> before, result |-> result]

InitSucc ==
    /\ EditorInit
    /\ probe \in {Probe("node", n, "", {}, {}) : n \in SampleNodes}
    /\ run = NoRun

\* The function is applied to the node.
call_successors ==
    /\ probe.fn = "node"
    /\ probe' = [probe EXCEPT !.fn = "successors", !.result = successors(probe.node)]
    /\ UNCHANGED <<editor_vars, run>>

\* One field of the node is changed and the function is applied again.
change_field(f, v) ==
    /\ probe.fn = "successors"
    /\ LET n == set_node_field(probe.node, f, v)
       IN /\ n # probe.node
          /\ probe' = Probe("changed", n, f, probe.result, successors(n))
    /\ UNCHANGED <<editor_vars, run>>

NextSucc ==
    \/ call_successors
    \/ \E f \in DOMAIN FieldValues : \E v \in FieldValues[f] : change_field(f, v)

SpecSucc == InitSucc /\ [][NextSucc]_vars

\* ------------------------------------------------- the validation function
\* validate is studied on every dialogue of up to MaxNodes nodes built from
\* the node shapes below, and on the chain A -> B -> END beside an isolated C.
SampleIds(len) == {NodePool[i] : i \in 1..len}

SampleShapes(id, len) ==
    {[DialogueNode(id, "SAY") EXCEPT !.next = t] : t \in {"", "nowhere"} \cup SampleIds(len)}
    \cup {[DialogueNode(id, "SAY") EXCEPT !.speaker = "ghost"],
          DialogueNode(id, "END"),
          [DialogueNode(id, "END") EXCEPT !.next = id],
          [DialogueNode(id, "IF") EXCEPT !.then_node = id, !.else_node = id],
          [DialogueNode(id, "IF") EXCEPT !.then_node = "n2", !.else_node = "n3"],
          [DialogueNode(id, "JUMP") EXCEPT !.jump_target = "d2/n1"],
          [DialogueNode(id, "JUMP") EXCEPT !.jump_target = "d2/n6"],
          [DialogueNode(id, "CHOICE") EXCEPT
              !.choices = <<[text |-> "stay", next |-> id], [text |-> "wait", next |-> id]>>]}

RECURSIVE SampleNodeLists(_, _)
SampleNodeLists(k, len) ==
    IF k = 0 THEN {<<>>}
    ELSE {Append(s, n) : s \in SampleNodeLists(k - 1, len),
                         n \in SampleShapes(NodePool[k], len)}

SampleDialogue(nodes) ==
    [Dialogue("d1", "Sample") EXCEPT
        !.characters = {"hero"}, !.nodes = nodes, !.last_index = Len(nodes)]

ChainSample ==
    SampleDialogue(<<[DialogueNode("n1", "SAY") EXCEPT !.next = "n2"],
                     [DialogueNode("n2", "SAY") EXCEPT !.next = "n3"],
                     DialogueNode("n3", "END"),
                     DialogueNode("n4", "SAY")>>)

SampleDialogues ==
    {SampleDialogue(s) : s \in UNION {SampleNodeLists(len, len) : len \in 0..MaxNodes}}
        \cup {ChainSample}

\* The project the samples are validated in: it holds the dialogue d2.
SampleProject == [d \in {"d2"} |-> parse(Doc2, "d2")]

Validation(fn, d, result, again) ==
    [fn |-> fn, dialogue |-> d, result |-> result, again |-> again]

InitVal ==
    /\ EditorInit
    /\ probe \in {Validation("dialogue", d, <<>>, <<>>) : d \in SampleDialogues}
    /\ run = NoRun

\* validate(dialogue, project) is called.
call_validate ==
    /\ probe.fn = "dialogue"
    /\ probe' = [probe EXCEPT !.fn = "validate",
                              !.result = validate(probe.dialogue, SampleProject)]
    /\ UNCHANGED <<editor_vars, run>>

\* It is called once more on the same dialogue.
call_validate_again ==
    /\ probe.fn = "validate"
    /\ probe' = [probe EXCEPT !.fn = "validate_again",
                              !.again = validate(probe.dialogue, SampleProject)]
    /\ UNCHANGED <<editor_vars, run>>

NextVal == call_validate \/ call_validate_again

SpecVal == InitVal /\ [][NextVal]_vars

\* ----------------------------------------------------------- the codec
\* save_dialogue and the load of what it wrote are studied on dialogues of up
\* to two nodes, in either insertion order, built from the shapes below.
CodecShapes(id) ==
    {[DialogueNode(id, "SAY") EXCEPT
         !.speaker = "hero", !.text = "hi", !.next = t, !.ui_pos = NodePosition(x, 40)] :
            t \in {"", "n2"}, x \in {0, 250}}
    \cup {[DialogueNode(id, "CHOICE") EXCEPT !.choices = c, !.text = "kept"] :
            c \in {<<[text |-> "go", next |-> "n1"], [text |-> "stay", next |-> ""]>>,
                   <<[text |-> "stay", next |-> ""], [text |-> "go", next |-> "n1"]>>,
                   <<[text |-> "go", next |-> "n1"], [text |-> "go", next |-> "n1"]>>}}
    \cup {[DialogueNode(id, "IF") EXCEPT
              !.condition = "flag", !.then_node = "n2", !.else_node = ""],
          [DialogueNode(id, "END") EXCEPT !.outcome = "won", !.next = "n1"],
          [DialogueNode(id, "JUMP") EXCEPT
              !.jump_target = "d2/n1", !.ui_pos = NodePosition(250, 0)]}

CodecNodeLists ==
    {<<>>} \cup {<<a>> : a \in CodecShapes("n1")}
           \cup UNION {{<<a, b>>, <<b, a>>} : a \in CodecShapes("n1"), b \in CodecShapes("n2")}

CodecSamples ==
    {[Dialogue("d1", "Intro") EXCEPT
         !.characters = {"hero"}, !.nodes = s, !.file_path = "d1",
         !.is_modified = m, !.last_index = Len(s)] :
            s \in CodecNodeLists, m \in BOOLEAN}

Codec(fn, d, document, loaded) ==
    [fn |-> fn, dialogue |-> d, document |-> document, loaded |-> loaded]

InitCodec ==
    /\ EditorInit
    /\ probe \in {Codec("dialogue", d, NoFile, Blank) : d \in CodecSamples}
    /\ run = NoRun

\* save_dialogue(dialogue): the document is written and the dialogue is no
\* longer modified.
call_save_dialogue ==
    /\ probe.fn = "dialogue"
    /\ probe' = [probe EXCEPT !.fn = "saved",
                              !.document = serialize(probe.dialogue),
                              !.dialogue.is_modified = FALSE]
    /\ UNCHANGED <<editor_vars, run>>

\* The document that was written is loaded from the dialogue's file.
call_load_dialogue ==
    /\ probe.fn = "saved"
    /\ probe' = [probe EXCEPT !.fn = "loaded",
                              !.loaded = parse(probe.document, probe.dialogue.file_path)]
    /\ UNCHANGED <<editor_vars, run>>

NextCodec == call_save_dialogue \/ call_load_dialogue

SpecCodec == InitCodec /\ [][NextCodec]_vars

\* ------------------------------------------------ the voice-over generator
\* Paths are strings; a dialogue file is known by its directory, stem and
\* extension, the parts pathlib takes a path into.
DIALOGUES_DIR == "dialogues"
AUDIO_OUTPUT_DIR == "sound/dialogues"
GIBBERISH_SCRIPT == "tools/gibberish_tts.py"

CHARACTER_PRESETS ==
    [default |-> "male1", doctor |-> "male2", nurse |-> "female1",
     child |-> "child1", old_man |-> "male4", woman |-> "female2"]

FilePath(f) == f.dir \o "/" \o f.stem \o "." \o f.ext

\* The dialogue files of the runs studied, and a path that names no file.
IntroJson == [dir |-> DIALOGUES_DIR, stem |-> "intro", ext |-> "json"]
NotesDtl == [dir |-> DIALOGUES_DIR, stem |-> "notes", ext |-> "dtl"]
EmptyDtl == [dir |-> DIALOGUES_DIR, stem |-> "empty", ext |-> "dtl"]
GoneDtl == [dir |-> DIALOGUES_DIR, stem |-> "gone", ext |-> "dtl"]
NoDialogueFile == [dir |-> "", stem |-> "", ext |-> ""]
SampleFiles == {IntroJson, NotesDtl, EmptyDtl}

TextEvent(name, character, text) ==
    [event_name |-> name, has_text |-> TRUE, text |-> text, character |-> character]
OtherEvent(name) ==
    [event_name |-> name, has_text |-> FALSE, text |-> "", character |-> ""]
TextLine(kind, character, text) == [kind |-> kind, character |-> character, text |-> text]

\* intro.json holds a JSON object with events; the .dtl files hold plain
\* text, a line being blank, a comment, or "Name: text" or "text".
SampleContent(f) ==
    CASE f = IntroJson ->
            [format |-> "json",
             items |-> <<TextEvent("dialogic_text_event", "doctor", "Hello"),
                         OtherEvent("dialogic_wait_event"),
                         TextEvent("dialogic_text_event", "Nurse", "   "),
                         TextEvent("note", "", "Bye")>>]
      [] f = NotesDtl ->
            [format |-> "text",
             items |-> <<TextLine("comment", "", "# notes"),
                         TextLine("line", "Nurse", "Hi"),
                         TextLine("blank", "", ""),
                         TextLine("line", "", "Who is there")>>]
      [] OTHER ->
            [format |-> "text",
             items |-> <<TextLine("comment", "", "// nothing yet"), TextLine("blank", "", "")>>]

\* str.strip() leaves nothing of these texts.
blank(text) == text \in {"", "   "}

\* str.lower() on the names the samples use.
lower(c) == IF c = "Nurse" THEN "nurse" ELSE c

\* The words get_preset_for_character looks for that a name holds.
parts_of(c) ==
    CASE c = "doctor" -> {"doctor"}
      [] c = "nurse" -> {"nurse"}
      [] c = "dr_who" -> {"dr"}
      [] OTHER -> {}

\* parse_dtl_file: the text lines of a file, each with the index of its event
\* or line, counted from 0.
parse_dtl_file(content) ==
    LET n == Len(content.items)
        as_json(i) ==
            LET e == content.items[i]
            IN [index |-> i - 1, text |-> e.text,
                character |-> IF e.character = "" THEN "default" ELSE e.character,
                keep |-> (e.event_name = "dialogic_text_event" \/ e.has_text)
                            /\ ~blank(e.text)]
        as_text(i) ==
            LET l == content.items[i]
            IN [index |-> i - 1, text |-> l.text,
                character |-> lower(IF l.character = "" THEN "default" ELSE l.character),
                keep |-> l.kind = "line" /\ ~blank(l.text)]
        all == [i \in 1..n |-> IF content.format = "json" THEN as_json(i) ELSE as_text(i)]
        kept == SelectSeq(all, LAMBDA l : l.keep)
    IN [k \in 1..Len(kept) |->
           [index |-> kept[k].index, text |-> kept[k].text, character |-> kept[k].character]]

get_preset_for_character(character) ==
    LET char_lower == lower(character)
        has(part) == part \in parts_of(char_lower)
    IN IF char_lower \in DOMAIN CHARACTER_PRESETS THEN CHARACTER_PRESETS[char_lower]
       ELSE IF has("doctor") \/ has("dr") THEN CHARACTER_PRESETS["doctor"]
       ELSE IF has("nurse") THEN CHARACTER_PRESETS["nurse"]
       ELSE IF has("child") \/ has("kid") \/ has("boy") \/ has("girl")
            THEN CHARACTER_PRESETS["child"]
       ELSE IF has("old") \/ has("elder") THEN CHARACTER_PRESETS["old_man"]
       ELSE IF has("woman") \/ has("lady") \/ has("female") THEN CHARACTER_PRESETS["woman"]
       ELSE CHARACTER_PRESETS["default"]

\* f"{idx:03d}" for the indices the samples reach.
format_index(idx) == "00" \o <<"0", "1", "2", "3", "4", "5", "6", "7", "8", "9">>[idx + 1]

output_dir(f) == AUDIO_OUTPUT_DIR \o "/" \o f.stem
audio_path(f, idx) == output_dir(f) \o "/" \o f.stem \o "_" \o format_index(idx) \o ".wav"

\* A run: its arguments, the file system, where it stands, and what it has
\* counted, started and written so far.
Run(args, fs) ==
    [pc |-> "main", args |-> args, fs |-> fs, dialogue_files |-> <<>>,
     lines |-> <<>>, at |-> 0, generated |-> 0, audio_mapping |-> {},
     results |-> <<>>, started |-> 0, writes |-> <<>>,
     total_lines |-> 0, total_generated |-> 0]

\* Path.mkdir(parents=True, exist_ok=True)
mkdir(r, dir) ==
    IF dir \in r.fs.dirs THEN r
    ELSE [r EXCEPT !.fs.dirs = @ \cup {dir},
                   !.writes = Append(@, [op |-> "mkdir", path |-> dir])]

write_file(r, path, content) ==
    [r EXCEPT !.fs.files = [q \in DOMAIN r.fs.files \cup {path} |->
                               IF q = path THEN content ELSE r.fs.files[q]],
              !.writes = Append(@, [op |-> "write", path |-> path])]

exists(r, path) == path \in DOMAIN r.fs.files

\* DIALOGUES_DIR.glob("*." + ext), in whatever order the directory gives.
glob(r, ext) ==
    Orders({f \in SampleFiles : f.ext = ext /\ DIALOGUES_DIR \in r.fs.dirs /\ exists(r, FilePath(f))})

\* main, up to the loop over the dialogue files.
main_begin ==
    /\ run.pc = "main"
    /\ IF run.args.list_presets THEN run' = [run EXCEPT !.pc = "returned"]
       ELSE IF ~exists(run, GIBBERISH_SCRIPT) THEN run' = [run EXCEPT !.pc = "exited"]
       ELSE LET r1 == mkdir(run, DIALOGUES_DIR)
                found == IF run.args.dialogue # NoDialogueFile
                         THEN {<<run.args.dialogue>>}
                         ELSE {a \o b : a \in glob(r1, "dtl"), b \in glob(r1, "json")}
            IN \E files \in found :
                  run' = [r1 EXCEPT !.dialogue_files = files,
                                    !.pc = IF files = <<>> THEN "returned" ELSE "loop"]
    /\ UNCHANGED <<editor_vars, probe>>

result_of(r) ==
    [file |-> FilePath(Head(r.dialogue_files)), lines |-> Len(r.lines),
     generated |-> r.generated, mapping |-> r.audio_mapping]

\* The loop of main takes the result of a file and goes to the next.
returned_to_main(r) ==
    [r EXCEPT !.results = Append(@, result_of(r)),
              !.total_lines = @ + Len(r.lines),
              !.total_generated = @ + r.generated,
              !.dialogue_files = Tail(@),
              !.lines = <<>>, !.at = 0, !.generated = 0, !.audio_mapping = {},
              !.pc = "loop"]

\* process_dialogue_file, up to its loop over the lines: the file is read
\* and, outside a dry run, the output directory is made.
process_dialogue_file_begin ==
    /\ run.pc = "loop"
    /\ run.dialogue_files # <<>>
    /\ LET f == Head(run.dialogue_files)
       IN IF ~exists(run, FilePath(f)) THEN run' = [run EXCEPT !.pc = "crashed"]
          ELSE LET lines == parse_dtl_file(run.fs.files[FilePath(f)])
                   r1 == [run EXCEPT !.lines = lines, !.at = 1]
               IN IF lines = <<>> THEN run' = returned_to_main(r1)
                  ELSE run' = [(IF run.args.dry_run THEN r1
                                ELSE mkdir(mkdir(r1, AUDIO_OUTPUT_DIR), output_dir(f)))
                               EXCEPT !.pc = "lines"]
    /\ UNCHANGED <<editor_vars, probe>>

\* How the subprocess of generate_audio may end: it returns 0 and has written
\* the audio file; it returns another code, with or without a file written;
\* it is stopped after the timeout; it cannot be started.
SubprocessOutcomes == {"ok", "error", "error_partial", "timeout", "exception"}

\* generate_audio runs gibberish_tts.py on the text and the output path; the
\* subprocess writes to that path and nowhere else.
generate_audio(r, path, line, outcome) ==
    LET r1 == [r EXCEPT !.started = @ + 1]
        audio == [format |-> "wav", text |-> line.text,
                  preset |-> get_preset_for_character(line.character)]
    IN [ok |-> outcome = "ok",
        run |-> IF outcome \in {"ok", "error_partial"} THEN write_file(r1, path, audio)
                ELSE r1]

\* A turn of the loop that counts the line whether or not its audio was made.
process_line_counting_attempts(outcome) ==
    /\ run.pc = "lines"
    /\ run.at <= Len(run.lines)
    /\ run.args.dry_run <=> outcome = "none"
    /\ LET f == Head(run.dialogue_files)
           line == run.lines[run.at]
           res_path == "res://" \o audio_path(f, line.index)
           g == generate_audio(run, audio_path(f, line.index), line, outcome)
           r1 == IF run.args.dry_run THEN run ELSE g.run
       IN run' = IF run.args.dry_run \/ g.ok
                 THEN [r1 EXCEPT !.generated = @ + 1,
                                 !.audio_mapping = @ \cup {[index |-> line.index, path |-> res_path]},
                                 !.at = @ + 1]
                 ELSE [r1 EXCEPT !.generated = @ + 1, !.at = @ + 1]
    /\ UNCHANGED <<editor_vars, probe>>

\* One turn of the loop over the lines of a file.
process_line(outcome) ==
    /\ run.pc = "lines"
    /\ run.at <= Len(run.lines)
    /\ run.args.dry_run <=> outcome = "none"
    /\ LET f == Head(run.dialogue_files)
           line == run.lines[run.at]
           res_path == "res://" \o audio_path(f, line.index)
           g == generate_audio(run, audio_path(f, line.index), line, outcome)
           r1 == IF run.args.dry_run THEN run ELSE g.run
       IN run' = IF run.args.dry_run \/ g.ok
                 THEN [r1 EXCEPT !.generated = @ + 1,
                                 !.audio_mapping = @ \cup {[index |-> line.index, path |-> res_path]},
                                 !.at = @ + 1]
                 ELSE [r1 EXCEPT !.at = @ + 1]
    /\ UNCHANGED <<editor_vars, probe>>

\* A process_dialogue_file that puts the audio paths into the dialogue file
\* before it returns.
process_dialogue_file_end_updating ==
    /\ run.pc = "lines"
    /\ run.at > Len(run.lines)
    /\ LET path == FilePath(Head(run.dialogue_files))
           content == [run.fs.files[path] EXCEPT !.format = "with_audio"]
       IN run' = returned_to_main(write_file(run, path, content))
    /\ UNCHANGED <<editor_vars, probe>>

\* process_dialogue_file returns its counts.
process_dialogue_file_end ==
    /\ run.pc = "lines"
    /\ run.at > Len(run.lines)
    /\ run' = returned_to_main(run)
    /\ UNCHANGED <<editor_vars, probe>>

\* main prints the totals and returns.
main_end ==
    /\ run.pc = "loop"
    /\ run.dialogue_files = <<>>
    /\ run' = [run EXCEPT !.pc = "returned"]
    /\ UNCHANGED <<editor_vars, probe>>

\* The arguments and the directories a run may start from.
RunArguments ==
    [dry_run : BOOLEAN, list_presets : BOOLEAN,
     dialogue : {NoDialogueFile, IntroJson, GoneDtl}]

InitialFiles(script, present) ==
    [q \in {FilePath(f) : f \in present} \cup (IF script THEN {GIBBERISH_SCRIPT} ELSE {}) |->
        IF q = GIBBERISH_SCRIPT THEN [format |-> "script", items |-> <<>>]
        ELSE SampleContent(CHOOSE f \in present : FilePath(f) = q)]

RunFileSystems ==
    {[dirs |-> IF dir THEN {DIALOGUES_DIR} ELSE {}, files |-> InitialFiles(script, present)] :
        script \in BOOLEAN, dir \in BOOLEAN, present \in SUBSET SampleFiles}

InitAudio ==
    /\ EditorInit
    /\ probe = NoProbe
    /\ run \in {Run(args, fs) : args \in RunArguments,
                   fs \in {x \in RunFileSystems :
                              DIALOGUES_DIR \in x.dirs \/ DOMAIN x.files \subseteq {GIBBERISH_SCRIPT}}}

NextAudio ==
    \/ main_begin
    \/ process_dialogue_file_begin
    \/ \E outcome \in SubprocessOutcomes \cup {"none"} : process_line(outcome)
    \/ process_dialogue_file_end
    \/ main_end

SpecAudio == InitAudio /\ [][NextAudio]_vars

\* ------------------------------------------------------------ properties
\* The dialogue objects that exist: those something holds.
LiveCells == Held(State)

\* The project as validation is handed it: dialogue id -> dialogue.
ProjectMap ==
    [d \in {x \in DialogueIds : project.dialogues[x] # None} |-> heap[project.dialogues[d]]]

ChoiceNexts(n) == {n.choices[i].next : i \in 1..Len(n.choices)}

successor_fields(n) ==
    <<n.next, [i \in 1..Len(n.choices) |-> n.choices[i].next],
      n.then_node, n.else_node, n.jump_target>>

\* C1: removing a node rewrites no successor field of a node that stays: in
\* every step in which node b leaves a dialogue, each node a that stays has
\* the successor fields it had, and when a is a SAY node whose next is b,
\* validation of the dialogue then reports a dangling reference for a.
C1_RemoveRewritesNoReference ==
    [][\A c \in Cells :
          \A b \in NodeKeys(heap[c]) \ NodeKeys(heap'[c]) :
             \A a \in NodeKeys(heap[c]) \cap NodeKeys(heap'[c]) :
                LET A0 == get_node(heap[c], a)
                    A1 == get_node(heap'[c], a)
                IN /\ successor_fields(A1) = successor_fields(A0)
                   /\ (A0.type = "SAY" /\ A0.next = b) =>
                         Diagnostic("error", "dangling", a)
                            \in Range(validate(heap'[c], NoProject))]_vars

\* C2 as stated: in every reachable state every non-empty successor reference
\* of every node of a project dialogue names a node of that dialogue, or, for
\* jump_target, a <dialogue>/<node> of the project.  A jump into a dialogue
\* the project no longer holds is left aside: deleting a dialogue is not among
\* the operations the statement is about.
C2_EveryReferenceResolves ==
    \A c \in ProjectCells(State) :
       \A i \in 1..Len(heap[c].nodes) :
          LET d == heap[c]
              n == d.nodes[i]
          IN /\ \A r \in NonEmpty({n.next, n.then_node, n.else_node} \cup ChoiceNexts(n)) :
                   HasNode(d, r)
             /\ n.jump_target # "" =>
                   \/ HasNode(d, n.jump_target)
                   \/ resolves_cross(n.jump_target, ProjectMap)
                   \/ \E t \in CrossTargets :
                         t.ref = n.jump_target /\ t.dialogue \notin DOMAIN ProjectMap

\* C2, amended: a reference may dangle; in every reachable state each
\* non-empty reference of a node's active type that names no node of the
\* dialogue and, for a JUMP, no <dialogue>/<node> of the project, is reported
\* by validate(), handed the project, as a dangling-reference error for that node.
C2_UnresolvedReferenceIsReported ==
    \A c \in ProjectCells(State) :
       \A i \in 1..Len(heap[c].nodes) :
          LET d == heap[c]
              n == d.nodes[i]
          IN (\E r \in successors(n) : ~resolves(d, n, r, ProjectMap))
                => Diagnostic("error", "dangling", n.id) \in Range(validate(d, ProjectMap))

\* A project dialogue holds a JUMP whose target dialogue left the project, or
\* a SAY whose next names a node that was deleted.
C2_DanglingReached ==
    \E c \in ProjectCells(State) :
       \E i \in 1..Len(heap[c].nodes) :
          LET d == heap[c]
              n == d.nodes[i]
          IN /\ \E r \in successors(n) : ~resolves(d, n, r, ProjectMap)
             /\ Len(validate(d, ProjectMap)) > 0

\* C3: a dialogue of the project is marked modified exactly when its graph
\* was mutated since it was last saved or loaded.
C3_ModifiedIffMutated ==
    \A c \in ProjectCells(State) : heap[c].is_modified <=> dirty[c]

\* C4: the flag of a dialogue object that stays alive goes from true to false
\* only in a step of Save or Save All that wrote the dialogue's document.
C4_ClearedOnlyBySave ==
    [][\A c \in Cells :
          (heap[c].is_modified /\ c \in LiveCells' /\ ~heap'[c].is_modified)
             => /\ \/ \E path \in DialogueIds \cup {""} : _save_current(path, TRUE)
                   \/ \E failing \in SUBSET DialogueIds : _save_all(failing)
                /\ disk'[heap'[c].file_path] = serialize(heap'[c])]_vars

\* A save of a modified dialogue failed, and the dialogue is still modified.
C4_FailedSaveKeepsFlag ==
    /\ last = Outcome("_save_current", "IOFailure")
    /\ current_dialogue # None
    /\ heap[current_dialogue].is_modified

\* C5: the lines drawn from each node of the view's dialogue that has an item
\* go to exactly the members of the node's successor set that have an item.
C5_LinesAreSuccessors ==
    gv_dialogue # None =>
       \A i \in 1..Len(heap[gv_dialogue].nodes) :
          LET n == heap[gv_dialogue].nodes[i]
          IN n.id \in DOMAIN node_items =>
                {connection_lines[k].end :
                    k \in {j \in 1..Len(connection_lines) : connection_lines[j].start = n.id}}
                = successors(n) \cap DOMAIN node_items

\* C6: the successor set is read off the fields of the node's type alone:
\* {next} for SAY, SET and SIGNAL, the choices' next for CHOICE, {then_node,
\* else_node} for IF, {jump_target} for JUMP, nothing for END; it holds no
\* empty reference, and a change of a field of another type leaves it as it was.
C6_SuccessorsByType ==
    probe.fn \in {"successors", "changed"} =>
       LET n == probe.node
           fields == IF n.type \in {"SAY", "SET", "SIGNAL"} THEN {n.next}
                     ELSE IF n.type = "CHOICE" THEN ChoiceNexts(n)
                     ELSE IF n.type = "IF" THEN {n.then_node, n.else_node}
                     ELSE IF n.type = "JUMP" THEN {n.jump_target}
                     ELSE {}
       IN /\ probe.result = {r \in fields : r # ""}
          /\ "" \notin probe.result
          /\ (probe.fn = "changed" /\ probe.field \notin ActiveFields(n.type))
                => probe.result = probe.before

\* The next of a CHOICE node with a choice that leads somewhere was changed.
C6_StaleFieldChanged ==
    /\ probe.fn = "changed"
    /\ probe.field = "next"
    /\ probe.node.type = "CHOICE"
    /\ probe.node.next = "n3"
    /\ probe.before = {"n3"}
    /\ probe.result = {"n3"}

\* The node the inspector edits, in state S.
inspected(S) == get_node(S.heap[S.current_node.cell], S.current_node.id)

\* C7: a retype writes the type picked into the inspector's node and nothing
\* else into any node, and from every reachable state with a node in the
\* inspector, retyping it to any other type and back leaves the node as it is.
C7_RetypeKeepsPayload ==
    /\ [][\A t \in NodeType :
             change_type(t) =>
                \A c \in LiveCells' :
                   /\ Len(heap'[c].nodes) = Len(heap[c].nodes)
                   /\ \A i \in 1..Len(heap[c].nodes) :
                         LET n0 == heap[c].nodes[i]
                             n1 == heap'[c].nodes[i]
                         IN /\ [n1 EXCEPT !.type = n0.type] = n0
                            /\ n1.type # n0.type =>
                                  /\ current_node = NodeRef(c, n0.id)
                                  /\ n1.type = t]_vars
    /\ [](current_node.kind = "node" =>
             \A x \in NodeType \ {inspected(State).type} :
                LET T == inspected(State).type
                    S1 == _on_type_changed([State EXCEPT !.type_combo = x])
                    S2 == _on_type_changed([S1 EXCEPT !.type_combo = T])
                IN /\ inspected(S1) = [inspected(State) EXCEPT !.type = x]
                   /\ inspected(S2) = inspected(State))

\* The first node of the first document is in the inspector, retyped, with
\* the speaker, text and next it was loaded with.
C7_RetypedWithPayload ==
    /\ current_node.kind = "node"
    /\ inspected(State).id = "n1"
    /\ inspected(State).type = "CHOICE"
    /\ inspected(State).text = "hi"
    /\ inspected(State).speaker = "hero"
    /\ inspected(State).next = "n2"
    /\ heap[current_node.cell].is_modified

node_ids(d) == [i \in 1..Len(d.nodes) |-> d.nodes[i].id]

\* C8: the ids of the nodes of a dialogue are pairwise distinct, and in every
\* step the nodes that stay keep their ids and their order: the ids after the
\* step are the ids before it without those of nodes that left, followed by
\* the ids of nodes that came.
C8_IdsDistinctAndStable ==
    /\ [](\A c \in LiveCells :
             \A i, j \in 1..Len(heap[c].nodes) :
                heap[c].nodes[i].id = heap[c].nodes[j].id => i = j)
    /\ [][\A c \in LiveCells \cap LiveCells' :
             LET old == node_ids(heap[c])
                 new == node_ids(heap'[c])
                 kept == SelectSeq(old, LAMBDA x : x \in Range(new))
             IN /\ Len(kept) <= Len(new)
                /\ SubSeq(new, 1, Len(kept)) = kept
                /\ \A k \in (Len(kept) + 1)..Len(new) : new[k] \notin Range(old)]_vars

\* A dialogue holds the two nodes it was loaded with and one the editor added.
C8_NodeAdded ==
    \E c \in LiveCells : node_ids(heap[c]) = <<"n1", "n2", "n3">>

\* C9: Add Node with an id the current dialogue holds ends in
\* DuplicateIdError and leaves every dialogue, the items of the view and its
\* lines as they were.
C9_DuplicateAddChangesNothing ==
    [][\A t \in AddTypes, id \in AddIds :
          (/\ current_dialogue # None
           /\ id # NoId
           /\ HasNode(heap[current_dialogue], id)
           /\ _add_node(t, id))
             => /\ last' = Outcome("_add_node", "DuplicateIdError")
                /\ heap' = heap
                /\ node_items' = node_items
                /\ connection_lines' = connection_lines]_vars

\* An Add Node was refused for its id, with the dialogue shown in the view.
C9_DuplicateRefused ==
    /\ last = Outcome("_add_node", "DuplicateIdError")
    /\ current_dialogue # None
    /\ DOMAIN node_items = NodeKeys(heap[current_dialogue])
    /\ node_items # NoItems

Diagnostics ==
    [severity : {"error", "warning"},
     kind : {"dangling", "unknown_speaker", "unreachable", "no_terminal", "self_loop"},
     node_id : Range(NodePool)]

\* C10: validate() gives a list of diagnostics for every dialogue there is,
\* and a step of Validate reports the length of that list and changes no
\* dialogue, nothing of the project, the files, the view or the inspector.
C10_ValidateReadOnlyTotal ==
    /\ [](\A c \in LiveCells : validate(heap[c], NoProject) \in Seq(Diagnostics))
    /\ [][(last.op # "_validate_current" /\ last'.op = "_validate_current")
             => /\ last'.count = Len(validate(heap[current_dialogue], NoProject))
                /\ UNCHANGED <<project, heap, alloc, disk, current_dialogue, gv_dialogue,
                               node_items, connection_lines, insp_dialogue, current_node,
                               type_combo, speaker_combo, text_edit, next_combo,
                               choices_list, tree_items, dirty>>]_vars

\* Validate ran on a modified dialogue in which the next of a SAY node names
\* no node.
C10_ValidatedDangling ==
    /\ last.op = "_validate_current"
    /\ heap[current_dialogue].is_modified
    /\ \E i \in 1..Len(heap[current_dialogue].nodes) :
          LET n == heap[current_dialogue].nodes[i]
          IN n.type = "SAY" /\ n.next # "" /\ ~HasNode(heap[current_dialogue], n.next)
    /\ last.count > 0

\* ---- C11
\* The references of node n of sample dialogue d that name no node: neither a
\* node of d nor, for a JUMP node, a node of a dialogue of the project.
unresolved(d, n) ==
    {r \in successors(n) :
        /\ ~HasNode(d, r)
        /\ ~(n.type = "JUMP" /\ resolves_cross(r, SampleProject))}

self_looping(n) == successors(n) = {n.id}

\* Node i of d is a SAY node whose next names no node, and d has no other
\* defect of the error kind.
only_dangling_say(d, i) ==
    /\ d.nodes[i].type = "SAY"
    /\ unresolved(d, d.nodes[i]) # {}
    /\ \A j \in 1..Len(d.nodes) :
          /\ j # i => unresolved(d, d.nodes[j]) = {}
          /\ ~self_looping(d.nodes[j])

validated == probe.fn \in {"validate", "validate_again"}

\* C11 as stated: for a SAY node whose next names no node, in a dialogue with
\* no other defect of the error kind, validate returns one diagnostic and no
\* more: the dangling-reference error of that node.
C11_OneDiagnosticOnly ==
    validated =>
       \A i \in 1..Len(probe.dialogue.nodes) :
          only_dangling_say(probe.dialogue, i)
             => probe.result = <<Diagnostic("error", "dangling", probe.dialogue.nodes[i].id)>>

\* C11 amended: for such a node validate returns exactly one diagnostic of
\* severity error, the dangling-reference error of that node; what else it
\* returns are warnings of the other checks (the terminal-less warning when
\* the node is all the entry leads to).
C11_OneErrorDiagnostic ==
    validated =>
       \A i \in 1..Len(probe.dialogue.nodes) :
          only_dangling_say(probe.dialogue, i)
             => /\ SelectSeq(probe.result, LAMBDA e : e.severity = "error")
                      = <<Diagnostic("error", "dangling", probe.dialogue.nodes[i].id)>>
                /\ \A k \in 1..Len(probe.result) :
                      probe.result[k].severity \in {"error", "warning"}

\* validate ran on the dialogue of one SAY node whose next names no node and
\* returned the error and the terminal-less warning.
C11_DanglingSayValidated ==
    /\ probe.fn = "validate"
    /\ Len(probe.dialogue.nodes) = 1
    /\ only_dangling_say(probe.dialogue, 1)
    /\ probe.result = <<Diagnostic("error", "dangling", "n1"),
                        Diagnostic("warning", "no_terminal", "n1")>>

\* ---- C12
\* How often diagnostic e occurs in the sequence r.
occurrences(r, e) == Cardinality({k \in 1..Len(r) : r[k] = e})

errors_of(r, id) == SelectSeq(r, LAMBDA e : e.severity = "error" /\ e.node_id = id)

closed_under_successors(d, R) ==
    \A a \in R : \A b \in successors(get_node(d, a)) : HasNode(d, b) => b \in R

\* The nodes reached from the entry node, the first in insertion order: the
\* least set that holds the entry and is closed under the successor function.
from_entry(d) ==
    LET ids == NodeKeys(d)
        holds_entry(R) == d.nodes[1].id \in R /\ closed_under_successors(d, R)
    IN CHOOSE R \in SUBSET ids :
          /\ holds_entry(R)
          /\ \A Q \in SUBSET ids : holds_entry(Q) => R \subseteq Q

\* C13: validate returns the unreachable-node warning of a node, once, exactly
\* when the node is not reached from the entry node by the successor
\* function.
C13_UnreachableIffNotFromEntry ==
    validated =>
       \A i \in 1..Len(probe.dialogue.nodes) :
          LET id == probe.dialogue.nodes[i].id
              flagged == occurrences(probe.result, Diagnostic("warning", "unreachable", id))
          IN flagged = IF id \in from_entry(probe.dialogue) THEN 0 ELSE 1

\* validate ran on A -> B -> END beside the isolated C and flagged C alone.
C13_IsolatedNodeFlagged ==
    /\ probe.fn = "validate"
    /\ probe.dialogue = ChainSample
    /\ probe.result = <<Diagnostic("warning", "unreachable", "n4")>>

\* ---- C14
\* The place of each check in the order of the checks.
check_rank(kind) ==
    CASE kind = "dangling" -> 1
      [] kind = "unknown_speaker" -> 2
      [] kind = "unreachable" -> 3
      [] kind = "no_terminal" -> 4
      [] kind = "self_loop" -> 5

kinds_of(r) == [k \in 1..Len(r) |-> r[k].kind]

ordered_by_check(r) ==
    \A i, j \in 1..Len(r) : i < j => check_rank(r[i].kind) <= check_rank(r[j].kind)

C15_CrossJumpNotDangling ==
    last.op = "_validate_current" =>
       \A i \in 1..Len(heap[current_dialogue].nodes) :
          LET n == heap[current_dialogue].nodes[i]
          IN (/\ n.type = "JUMP"
              /\ ~HasNode(heap[current_dialogue], n.jump_target)
              /\ resolves_cross(n.jump_target, ProjectMap))
                => Diagnostic("error", "dangling", n.id) \notin Range(last.shown)

entries_for(errors, f) == Cardinality({k \in 1..Len(errors) : errors[k].file_path = f})

\* C17: in every step that opens the project directory the load ends with a
\* project: each well-formed document of the directory is a dialogue of the
\* project, as parsed from its file and listed in the dialogue tree, and the
\* load reports one (file_path, error) entry for each malformed file and none
\* for any other.
C17_LoadSkipsMalformed ==
    [][_open_project(RootPath)
          => /\ project'.open
             /\ \A f \in Files :
                   disk[f].kind = "ok"
                      => \E did \in DialogueIds :
                            /\ project'.dialogues[did] # None
                            /\ heap'[project'.dialogues[did]] = parse(disk[f], f)
                            /\ did \in tree_items'
             /\ \A f \in Files :
                   entries_for(project'.load_errors, f)
                      = IF disk[f].kind = "malformed" THEN 1 ELSE 0]_vars

\* The directory with two well-formed documents and a malformed one was
\* opened: both dialogues are in the project and the malformed file is
\* reported once.
C17_OpenedBesideMalformed ==
    /\ project.open
    /\ edits = 1
    /\ disk["bad"].kind = "malformed"
    /\ project.dialogues["d1"] # None
    /\ project.dialogues["d2"] # None
    /\ project.load_errors = <<[file_path |-> "bad", error |-> "ParseError"]>>

\* ---- C18
\* C18: a dialogue has a file_path only once it is persisted: in every step,
\* a dialogue that has a file_path after the step had that file_path before
\* it, or was loaded from that file in the step, or was written to that file
\* in the step.
C18_PathOnlyOncePersisted ==
    [][\A c \in LiveCells' :
          heap'[c].file_path # ""
             => \/ c \in LiveCells /\ heap[c].file_path = heap'[c].file_path
                \/ /\ c \notin LiveCells
                   /\ disk[heap'[c].file_path].kind = "ok"
                   /\ heap'[c] = parse(disk[heap'[c].file_path], heap'[c].file_path)
                \/ /\ disk' # disk
                   /\ disk'[heap'[c].file_path] = serialize(heap'[c])]_vars

\* ---- C19
\* The paths of dialogue files, and the paths of audio files under the audio
\* output directory.
DialoguePaths == {FilePath(f) : f \in SampleFiles \cup {GoneDtl}}

AudioPaths ==
    {AUDIO_OUTPUT_DIR \o "/" \o f.stem \o "/" \o f.stem \o "_00" \o d \o ".wav" :
        f \in SampleFiles \cup {GoneDtl},
        d \in {"0", "1", "2", "3", "4", "5", "6", "7", "8", "9"}}

written_in_step == SubSeq(run'.writes, Len(run.writes) + 1, Len(run'.writes))

C20_DryRunTouchesNothing ==
    (run.pc # "none" /\ run.args.dry_run)
       => /\ run.started = 0
          /\ run.writes = <<>>

\* ---- C21
\* The dialogues of the project that Save All has to try: modified, with a
\* file_path.
to_save == Attempted

\* C21: in every step of Save All, each dialogue of the project that is
\* modified and has a file_path is either saved (its document is in its file
\* and it is no longer modified) or named in an error line and left as it
\* was, one failing save not keeping the others from being tried; no other
\* dialogue and no other file is touched; the handler ends with its status
\* message, and the count it shows is the number of dialogues saved.
C21_SaveAllTriesEach ==
    [][(last.op # "_save_all" /\ last'.op = "_save_all")
          => LET failed == Range(last'.shown)
                 saved == to_save \ failed
             IN /\ failed \subseteq to_save
                /\ \A d \in saved :
                      LET c == project.dialogues[d]
                      IN /\ disk'[heap[c].file_path] = serialize(heap'[c])
                         /\ ~heap'[c].is_modified
                         /\ heap'[c] = [heap[c] EXCEPT !.is_modified = FALSE]
                /\ \A d \in DialogueIds \ saved :
                      project.dialogues[d] # None
                         => heap'[project.dialogues[d]] = heap[project.dialogues[d]]
                /\ \A f \in Files :
                      (\A d \in saved : heap[project.dialogues[d]].file_path # f)
                         => disk'[f] = disk[f]
                /\ last'.count = Cardinality(saved)
                /\ project' = project]_vars

\* Save All ran with two dialogues to save: the file of one could not be
\* written, the other was saved, and the count shown is 1.
C21_OneSavedOneFailed ==
    /\ last.op = "_save_all"
    /\ last.count = 1
    /\ last.shown = <<"d1">>
    /\ heap[project.dialogues["d1"]].is_modified
    /\ ~heap[project.dialogues["d2"]].is_modified
    /\ disk["d2"] = serialize(heap[project.dialogues["d2"]])
    /\ disk["d2"] # Doc2

\* ---- C22
\* Every node there was before the step is, in each dialogue that is still
\* there, the node it was, field by field.
nodes_left_as_they_were ==
    \A c \in LiveCells \cap LiveCells' :
       \A i \in 1..Len(heap[c].nodes) :
          /\ HasNode(heap'[c], heap[c].nodes[i].id)
          /\ get_node(heap'[c], heap[c].nodes[i].id) = heap[c].nodes[i]

\* C22: a step that selects a dialogue or adds a node changes no field of a
\* node that existed before it, whatever node the inspector holds.
C22_RefreshChangesNoNode ==
    [][(\/ \E did \in DialogueIds : _on_dialogue_selected(did)
        \/ \E t \in AddTypes, id \in AddIds : _add_node(t, id))
          => nodes_left_as_they_were]_vars

\* ---- C23
\* C23: a step that selects a node changes no dialogue and no node (so it
\* sets no is_modified), and nothing node_changed would bring about happens:
\* the lines and the tree stay, and no graph counts as mutated.
C23_SelectingReadsOnly ==
    [][(\E id \in NodeIds : mousePressEvent(id))
          => /\ heap' = heap
             /\ dirty' = dirty
             /\ connection_lines' = connection_lines
             /\ tree_items' = tree_items
             /\ disk' = disk]_vars

\* Witness: the inspector shows n1 of the current dialogue d1, whose values
\* the widgets took, and d1 is as it was loaded.
C23_NodeLoadedUntouched ==
    /\ current_dialogue # None
    /\ current_node = NodeRef(current_dialogue, "n1")
    /\ heap[current_dialogue].id = "d1"
    /\ speaker_combo = "hero" /\ text_edit = "hi" /\ next_combo = "n2"
    /\ get_node(heap[current_dialogue], "n1").speaker = "hero"
    /\ ~heap[current_dialogue].is_modified
    /\ ~dirty[current_dialogue]

\* ---- C24
\* C24: while the window has a current dialogue, the view shows it: the ids
\* with an item are the ids of the dialogue's nodes, and the item of an id
\* wraps the node the dialogue holds under that id.
C24_ViewInStep ==
    current_dialogue # None =>
        /\ gv_dialogue = current_dialogue
        /\ DOMAIN node_items = NodeKeys(heap[current_dialogue])
        /\ \A id \in DOMAIN node_items : node_items[id] = current_dialogue

\* Witness: d1 was loaded into the view, a node was added and n1 deleted; the
\* view has items for n2 and n3, the nodes d1 holds.
C24_AddedAndDeletedInStep ==
    /\ current_dialogue # None
    /\ heap[current_dialogue].id = "d1"
    /\ NodeKeys(heap[current_dialogue]) = {"n2", "n3"}
    /\ DOMAIN node_items = {"n2", "n3"}
    /\ \A id \in DOMAIN node_items : node_items[id] = current_dialogue

\* ---- C25
\* What the successor fields of a node name, whatever its type.
targets_named(n) ==
    ({n.next, n.then_node, n.else_node, n.jump_target} \cup ChoiceNexts(n)) \ {""}

lines_drawn ==
    {<<connection_lines[i].start, connection_lines[i].end>> : i \in 1..Len(connection_lines)}

lines_due ==
    IF gv_dialogue = None THEN {}
    ELSE LET d == heap[gv_dialogue]
         IN {p \in (DOMAIN node_items) \X (DOMAIN node_items) :
                HasNode(d, p[1]) /\ p[2] \in targets_named(get_node(d, p[1]))}

\* C25: the lines in the view are the pairs (X, Y) where a successor field
\* of node X names a node Y that has an item in the view.
C25_LinesFollowFields == lines_drawn = lines_due

\* ---- C26
\* C26: the node the inspector holds, when it holds one, is a node of the
\* window's current dialogue.
C26_InspectorInsideCurrent ==
    current_node.kind # "none" =>
        /\ current_dialogue # None
        /\ current_node.kind = "node"
        /\ current_node.cell = current_dialogue
        /\ HasNode(heap[current_dialogue], current_node.id)

\* ---- C27
\* C27: the window's current dialogue, when it has one, is a dialogue of the
\* project that is open, and it is the dialogue the graph view shows.
C27_CurrentInsideProject ==
    current_dialogue # None =>
        /\ project.open
        /\ current_dialogue \in ProjectCells(State)
        /\ gv_dialogue = current_dialogue

\* ---- C28
\* The lines parse_dtl_file gave for the file in hand: no two share an index,
\* none has a blank text, and no two get the same audio file.
lines_apart(r) ==
    /\ \A j \in 1..Len(r.lines) : ~blank(r.lines[j].text)
    /\ \A j, k \in 1..Len(r.lines) :
          j # k =>
             /\ r.lines[j].index # r.lines[k].index
             /\ r.dialogue_files # <<>> =>
                   audio_path(Head(r.dialogue_files), r.lines[j].index)
                      # audio_path(Head(r.dialogue_files), r.lines[k].index)

\* What process_dialogue_file returned for a file: no more generated than
\* lines, as many in a dry run, and a mapping of one entry per generated line.
result_sound(r, res) ==
    /\ res.generated <= res.lines
    /\ r.args.dry_run => res.generated = res.lines
    /\ Cardinality(res.mapping) = res.generated
    /\ \A a, b \in res.mapping : (a.index = b.index \/ a.path = b.path) => a = b

\* C28: every result has generated <= lines, with equality in a dry run, and
\* a mapping of exactly one entry per generated line; the lines of a file have
\* distinct indices, non-blank texts and distinct audio files; the totals are
\* the sums of the results and total_generated <= total_lines.
C28_CountsAndMapping ==
    /\ lines_apart(run)
    /\ \A i \in 1..Len(run.results) : result_sound(run, run.results[i])
    /\ Cardinality(run.audio_mapping) = run.generated
    /\ run.generated <= Len(run.lines)
    /\ run.total_generated <= run.total_lines
    /\ run.args.dry_run => run.total_generated = run.total_lines

\* Witness: a run that made audio for three files has returned; one of the
\* four lines failed, so a result has fewer generated than lines and the
\* totals read 3/4.
C28_OneLineFailed ==
    /\ run.pc = "returned"
    /\ ~run.args.dry_run
    /\ Len(run.results) = 3
    /\ run.total_lines = 4
    /\ run.total_generated = 3
    /\ \E i \in 1..3 : /\ run.results[i].lines = 2
                       /\ run.results[i].generated = 1
                       /\ Cardinality(run.results[i].mapping) = 1

====
